---- MODULE Spec2Model ----
(***************************************************************************)
(* A model of poker_probability.py: the Card/deck model, hand_evaluator,   *)
(* compare_scores, find_best_five and probability_calculator.              *)
(*                                                                         *)
(* Python lists and tuples are sequences (1-based here, 0-based there).    *)
(* A score (category, [tie breakers]) is the pair <<category, tie>>.       *)
(* A raised ValueError / ZeroDivisionError is a one-element tuple naming   *)
(* the exception, so it is never confused with a score or a card list.     *)
(***************************************************************************)
EXTENDS Integers, Sequences, FiniteSets, TLC

VARIABLES
    pc,               \* position of the running function
    cards,            \* argument of hand_evaluator / find_best_five
    score,            \* hand_evaluator's return value
    combo,            \* find_best_five: number of 5-card combinations examined
    best_hand,        \* find_best_five: best_hand (<<>> is None)
    best_score,       \* find_best_five: best_score
    score1,           \* compare_scores: first argument
    score2,           \* compare_scores: second argument
    comparator,       \* compare_scores' return value
    my_hand,          \* probability_calculator: argument
    community_cards,  \* probability_calculator: argument
    player_count,     \* probability_calculator: argument
    my_score,         \* probability_calculator: my_score
    remaining_deck,   \* probability_calculator: remaining_deck
    opp_hands_count,  \* probability_calculator: opp_hands_count
    indices,          \* position of combinations(remaining_deck, 2)
    wins,             \* probability_calculator: wins
    ties,             \* probability_calculator: ties
    seen,             \* number of opponent pairs the loop body has processed
    win_probability   \* probability_calculator: win_probability / the raised error

vars == <<pc, cards, score, combo, best_hand, best_score, score1, score2,
          comparator, my_hand, community_cards, player_count, my_score,
          remaining_deck, opp_hands_count, indices, wins, ties, seen,
          win_probability>>

(***************************************************************************)
(* Module constants, Card and create_deck                                  *)
(***************************************************************************)
SUITS == <<"H", "D", "C", "S">>

RANKS == <<"2", "3", "4", "5", "6", "7", "8", "9", "10", "J", "Q", "K", "A">>

\* list.index: the 0-based position of the first occurrence of x
Index(list, x) == (CHOOSE i \in 1..Len(list) :
                      list[i] = x /\ \A j \in 1..(i - 1) : list[j] # x) - 1

InList(x, list) == \E i \in 1..Len(list) : list[i] = x

ValueError == <<"ValueError">>

ZeroDivisionError == <<"ZeroDivisionError">>

IsError(v) == DOMAIN v = {1}

\* Card.__init__
Card(rank, suit) ==
    IF ~InList(rank, RANKS) THEN ValueError
    ELSE IF ~InList(suit, SUITS) THEN ValueError
    ELSE [rank |-> rank, suit |-> suit, rank_value |-> Index(RANKS, rank)]

\* Card.__eq__
CardEq(a, b) == a.rank = b.rank /\ a.suit = b.suit

\* [Card(rank, suit) for rank in RANKS for suit in SUITS]
create_deck ==
    [i \in 1..(Len(RANKS) * Len(SUITS)) |->
        Card(RANKS[((i - 1) \div Len(SUITS)) + 1], SUITS[((i - 1) % Len(SUITS)) + 1])]

(***************************************************************************)
(* Python built-ins used by the code                                       *)
(***************************************************************************)
SetOf(list) == {list[i] : i \in 1..Len(list)}

Max(S) == CHOOSE x \in S : \A y \in S : y <= x

Min(S) == CHOOSE x \in S : \A y \in S : x <= y

\* One insertion of a stable descending sort: x arrives after the elements of
\* done, so it goes behind every element whose key is >= its own.
RECURSIVE InsertCardDesc(_, _)
InsertCardDesc(done, x) ==
    IF done = <<>> THEN <<x>>
    ELSE IF Head(done).rank_value >= x.rank_value
         THEN <<Head(done)>> \o InsertCardDesc(Tail(done), x)
         ELSE <<x>> \o done

\* sorted(cards, key = lambda card: card.rank_value, reverse = True)
RECURSIVE SortedCardsFrom(_, _)
SortedCardsFrom(done, list) ==
    IF list = <<>> THEN done
    ELSE SortedCardsFrom(InsertCardDesc(done, Head(list)), Tail(list))

SortedCards(list) == SortedCardsFrom(<<>>, list)

RECURSIVE InsertDesc(_, _)
InsertDesc(done, x) ==
    IF done = <<>> THEN <<x>>
    ELSE IF Head(done) >= x THEN <<Head(done)>> \o InsertDesc(Tail(done), x)
         ELSE <<x>> \o done

\* sorted(values, reverse = True) and list.sort(reverse = True) on integers
RECURSIVE SortedDescFrom(_, _)
SortedDescFrom(done, list) ==
    IF list = <<>> THEN done
    ELSE SortedDescFrom(InsertDesc(done, Head(list)), Tail(list))

SortedDesc(list) == SortedDescFrom(<<>>, list)

\* Counter(ranks).items(): (rank, count) pairs in order of first occurrence
RECURSIVE CounterItems(_, _)
CounterItems(list, all) ==
    IF list = <<>> THEN <<>>
    ELSE LET r == Head(list)
             rest == SelectSeq(Tail(list), LAMBDA v : v # r)
         IN <<<<r, Cardinality({i \in 1..Len(all) : all[i] = r})>>>>
            \o CounterItems(rest, all)

Counter(list) == CounterItems(list, list)

\* n choose k, as math.comb
RECURSIVE comb(_, _)
comb(n, k) == IF k = 0 THEN 1
              ELSE IF n < k THEN 0
              ELSE (n * comb(n - 1, k - 1)) \div k

\* itertools.combinations(list, r) keeps r indices into the list (1-based
\* here). It starts at 1..r; <<>> stands for the exhausted iterator.
FirstIndices(n, r) == IF r > n THEN <<>> ELSE [j \in 1..r |-> j]

\* One advance of the iterator: the rightmost index not yet at its last place
\* moves up by one and the indices right of it follow it
NextIndices(ind, n) ==
    LET r == Len(ind)
        movable == {i \in 1..r : ind[i] # i + n - r}
    IN  IF movable = {} THEN <<>>
        ELSE LET i == Max(movable)
             IN [j \in 1..r |-> IF j < i THEN ind[j] ELSE ind[i] + 1 + (j - i)]

\* The index tuples the iterator yields from ind on, in order
RECURSIVE IndicesFrom(_, _)
IndicesFrom(ind, n) ==
    IF ind = <<>> THEN <<>>
    ELSE <<ind>> \o IndicesFrom(NextIndices(ind, n), n)

Pick(list, idx) == [i \in 1..Len(idx) |-> list[idx[i]]]

(***************************************************************************)
(* hand_evaluator                                                          *)
(***************************************************************************)
\* flush = len(set(suits)) == 1
Flush(suits) == Cardinality(SetOf(suits)) = 1

\* Straight with the wheel's ace counted high
StraightAceHighWheel(ranks) ==
    IF Cardinality(SetOf(ranks)) = 5 /\ Max(SetOf(ranks)) - Min(SetOf(ranks)) = 4
    THEN <<TRUE, Max(SetOf(ranks))>>
    ELSE IF SetOf(ranks) = {0, 1, 2, 3, 12}
    THEN <<TRUE, Max(SetOf(ranks))>>
    ELSE <<FALSE, -1>>

\* The straight test: <<straight, straight_high>>
Straight(ranks) ==
    IF Cardinality(SetOf(ranks)) = 5 /\ Max(SetOf(ranks)) - Min(SetOf(ranks)) = 4
    THEN <<TRUE, Max(SetOf(ranks))>>
    ELSE IF SetOf(ranks) = {0, 1, 2, 3, 12}
    THEN <<TRUE, 3>>
    ELSE <<FALSE, -1>>

\* The ranks that a loop "for rank, count in rank_counts.items(): if count == n"
\* meets, in the order it meets them
WithCount(items, n) ==
    LET hit == SelectSeq(items, LAMBDA it : it[2] = n)
    IN [i \in 1..Len(hit) |-> hit[i][1]]

Last(list) == list[Len(list)]

\* Others without its filter
OthersUnfiltered(ranks, rank) == ranks

\* [val for val in ranks if val != rank]
Others(ranks, rank) == SelectSeq(ranks, LAMBDA val : val # rank)

\* TwoPair without pairs.sort(reverse = True)
TwoPairUnsorted(ranks, pairs) ==
    LET tie_breaker == Head(SelectSeq(ranks, LAMBDA val : ~InList(val, pairs)))
    IN <<2, pairs \o <<tie_breaker>>>>

\* The two-pair branch: pairs.sort(reverse = True); kicker; (2, pairs + [kicker])
TwoPair(ranks, pairs) ==
    LET sorted_pairs == SortedDesc(pairs)
        tie_breaker == Head(SelectSeq(ranks, LAMBDA val : ~InList(val, sorted_pairs)))
    IN <<2, sorted_pairs \o <<tie_breaker>>>>

\* The full-house loop: the last rank of count 3 and the last of count 2 it meets
FullHouse(items) ==
    <<6, <<Last(WithCount(items, 3)), Last(WithCount(items, 2))>>>>

\* hand_evaluator after the sort: the priority chain from the royal-flush test
\* to the high card, for the sorted ranks, the suits and the (rank, count)
\* pairs in the order rank_counts.items() yields them
Classify(ranks, suits, items) ==
    LET flush == Flush(suits)
        st == Straight(ranks)
        straight == st[1]
        straight_high == st[2]
        fours == WithCount(items, 4)
        threes == WithCount(items, 3)
        pairs == WithCount(items, 2)
    IN  IF straight /\ flush /\ InList(12, ranks) /\ straight_high = 12
        THEN <<9, <<>>>>
        ELSE IF straight /\ flush THEN <<8, <<straight_high>>>>
        ELSE IF fours # <<>>
        THEN <<7, <<Head(fours), Head(Others(ranks, Head(fours)))>>>>
        ELSE IF threes # <<>> /\ pairs # <<>> THEN FullHouse(items)
        ELSE IF flush THEN <<5, ranks>>
        ELSE IF straight THEN <<4, <<straight_high>>>>
        ELSE IF threes # <<>>
        THEN <<3, <<Head(threes)>> \o SortedDesc(Others(ranks, Head(threes)))>>
        ELSE IF Len(pairs) = 2 THEN TwoPair(ranks, pairs)
        ELSE IF pairs # <<>>
        THEN <<1, <<Head(pairs)>> \o SortedDesc(Others(ranks, Head(pairs)))>>
        ELSE <<0, SortedDesc(ranks)>>

\* ranks = [card.rank_value for card in sorted_cards]
RanksOf(sorted_cards) == [i \in 1..Len(sorted_cards) |-> sorted_cards[i].rank_value]

\* suits = [card.suit for card in sorted_cards]
SuitsOf(sorted_cards) == [i \in 1..Len(sorted_cards) |-> sorted_cards[i].suit]

hand_evaluator(hand) ==
    IF Len(hand) # 5 THEN ValueError
    ELSE LET sorted_cards == SortedCards(hand)
             ranks == RanksOf(sorted_cards)
             suits == SuitsOf(sorted_cards)
             rank_counts == Counter(ranks)
         IN Classify(ranks, suits, rank_counts)

(***************************************************************************)
(* compare_scores                                                          *)
(***************************************************************************)
\* zip(score1[1], score2[1]) stops at the shorter list
ZipLen(t1, t2) == IF Len(t1) < Len(t2) THEN Len(t1) ELSE Len(t2)

\* compare_scores with its second test, "if val2 < val1: return 1", left out
compare_scores_one_test(s1, s2) ==
    IF s1[1] > s2[1] THEN 1
    ELSE IF s1[1] < s2[1] THEN -1
    ELSE IF \E i \in 1..ZipLen(s1[2], s2[2]) : s1[2][i] < s2[2][i] THEN -1
    ELSE 0

compare_scores(s1, s2) ==
    IF s1[1] > s2[1] THEN 1
    ELSE IF s1[1] < s2[1] THEN -1
    ELSE LET differ == {i \in 1..ZipLen(s1[2], s2[2]) : s1[2][i] # s2[2][i]}
         IN IF differ = {} THEN 0
            ELSE IF s1[2][Min(differ)] < s2[2][Min(differ)] THEN -1
            ELSE 1

(***************************************************************************)
(* find_best_five                                                          *)
(***************************************************************************)
\* combinations(list, r) as the list of the tuples it yields
combinations(list, r) ==
    LET idx == IndicesFrom(FirstIndices(Len(list), r), Len(list))
    IN [i \in 1..Len(idx) |-> Pick(list, idx[i])]

\* BestStep with the comparison turned round: "if comparator < 0"
BestStepWorse(best, five_cards) ==
    LET hand == five_cards
        sc == hand_evaluator(hand)
    IN  IF best[1] = <<>> THEN <<hand, sc>>
        ELSE IF compare_scores(sc, best[2]) < 0 THEN <<hand, sc>>
        ELSE best

\* One pass of the loop body on five_cards: <<best_hand, best_score>> after it
BestStep(best, five_cards) ==
    LET hand == five_cards
        sc == hand_evaluator(hand)
    IN  IF best[1] = <<>> THEN <<hand, sc>>
        ELSE IF compare_scores(sc, best[2]) > 0 THEN <<hand, sc>>
        ELSE best

RECURSIVE BestLoop(_, _)
BestLoop(best, hands) ==
    IF hands = <<>> THEN best
    ELSE BestLoop(BestStep(best, Head(hands)), Tail(hands))

\* best_hand = None; best_score = (-1, [])
BestInit == <<<<>>, <<-1, <<>>>>>>

find_best_five(list) ==
    IF Len(list) < 5 THEN ValueError
    ELSE BestLoop(BestInit, combinations(list, 5))[1]

(***************************************************************************)
(* Running hand_evaluator                                                  *)
(***************************************************************************)
\* Ranks 2..MaxLowRank+2 are dealt in every suit to the evaluator
MaxLowRank == 4

\* The cards the evaluated hands are drawn from: the low ranks and the aces in
\* every suit (pairs to quads, the wheel, the six-high straight) and the
\* spades from 10 to K (the royal flush, the ace-high straight, Q-K-A-2-3)
EvalCards ==
    SelectSeq(create_deck, LAMBDA c : \/ c.rank_value <= MaxLowRank
                                      \/ c.rank_value = 12
                                      \/ (c.rank_value >= 8 /\ c.suit = "S"))

\* The OrderRanks lowest ranks are dealt in every suit to the order check
OrderRanks == 1

\* The cards whose hands are evaluated in every order: the lowest ranks in
\* every suit (quads, trips), the next rank in hearts and spades (two pair,
\* full house) and the spades 4, 5 and 7 (with the lower spades, a flush)
OrderCards ==
    SelectSeq(create_deck, LAMBDA c : \/ c.rank_value < OrderRanks
                                      \/ (c.rank_value = OrderRanks /\ c.suit \in {"H", "S"})
                                      \/ (c.rank_value \in {2, 3, 5} /\ c.suit = "S"))

\* Every order of the cards of a hand
Orders(hand) ==
    {[i \in 1..Len(hand) |-> hand[f[i]]] :
        f \in {g \in [1..Len(hand) -> 1..Len(hand)] :
                  \A i, j \in 1..Len(hand) : i # j => g[i] # g[j]}}

InitEval ==
    /\ pc = "eval"
    /\ \E a \in 1..Len(EvalCards) : \E b \in (a + 1)..Len(EvalCards) :
       \E c \in (b + 1)..Len(EvalCards) : \E d \in (c + 1)..Len(EvalCards) :
       \E e \in (d + 1)..Len(EvalCards) : cards = Pick(EvalCards, <<a, b, c, d, e>>)
    /\ score = <<>>
    /\ combo = 0 /\ best_hand = <<>> /\ best_score = <<>>
    /\ score1 = <<>> /\ score2 = <<>> /\ comparator = 0
    /\ my_hand = <<>> /\ community_cards = <<>> /\ player_count = 0
    /\ my_score = <<>> /\ remaining_deck = <<>> /\ opp_hands_count = 0
    /\ indices = <<>> /\ wins = 0 /\ ties = 0 /\ seen = 0
    /\ win_probability = <<>>

InitOrder ==
    /\ pc = "eval"
    /\ \E a \in 1..Len(OrderCards) : \E b \in (a + 1)..Len(OrderCards) :
       \E c \in (b + 1)..Len(OrderCards) : \E d \in (c + 1)..Len(OrderCards) :
       \E e \in (d + 1)..Len(OrderCards) :
          cards \in Orders(Pick(OrderCards, <<a, b, c, d, e>>))
    /\ score = <<>>
    /\ combo = 0 /\ best_hand = <<>> /\ best_score = <<>>
    /\ score1 = <<>> /\ score2 = <<>> /\ comparator = 0
    /\ my_hand = <<>> /\ community_cards = <<>> /\ player_count = 0
    /\ my_score = <<>> /\ remaining_deck = <<>> /\ opp_hands_count = 0
    /\ indices = <<>> /\ wins = 0 /\ ties = 0 /\ seen = 0
    /\ win_probability = <<>>

\* score = hand_evaluator(cards)
Evaluate ==
    /\ pc = "eval"
    /\ score' = hand_evaluator(cards)
    /\ pc' = "eval_done"
    /\ UNCHANGED <<cards, combo, best_hand, best_score, score1, score2,
                   comparator, my_hand, community_cards, player_count,
                   my_score, remaining_deck, opp_hands_count, indices, wins,
                   ties, seen, win_probability>>

NextEval == Evaluate

SpecEval == InitEval /\ [][NextEval]_vars

SpecOrder == InitOrder /\ [][NextEval]_vars

(***************************************************************************)
(* Running compare_scores                                                  *)
(***************************************************************************)
\* The compared scores have a category in 0..MaxCategory
MaxCategory == 1

\* and at most MaxTieLen tie breakers
MaxTieLen == 2

\* each in 0..MaxTieRank
MaxTieRank == 1

TieBreaks == UNION {[1..n -> 0..MaxTieRank] : n \in 0..MaxTieLen}

Scores == (0..MaxCategory) \X TieBreaks

InitCmp ==
    /\ pc = "cmp"
    /\ score1 \in Scores
    /\ score2 \in Scores
    /\ comparator = 0
    /\ cards = <<>> /\ score = <<>>
    /\ combo = 0 /\ best_hand = <<>> /\ best_score = <<>>
    /\ my_hand = <<>> /\ community_cards = <<>> /\ player_count = 0
    /\ my_score = <<>> /\ remaining_deck = <<>> /\ opp_hands_count = 0
    /\ indices = <<>> /\ wins = 0 /\ ties = 0 /\ seen = 0
    /\ win_probability = <<>>

\* comparator = compare_scores(score1, score2)
Compare ==
    /\ pc = "cmp"
    /\ comparator' = compare_scores(score1, score2)
    /\ pc' = "cmp_done"
    /\ UNCHANGED <<cards, score, combo, best_hand, best_score, score1, score2,
                   my_hand, community_cards, player_count, my_score,
                   remaining_deck, opp_hands_count, indices, wins, ties, seen,
                   win_probability>>

NextCmp == Compare

SpecCmp == InitCmp /\ [][NextCmp]_vars

(***************************************************************************)
(* Running find_best_five                                                  *)
(***************************************************************************)
\* Ranks 2..BestRanks+1 are dealt in hearts and diamonds to the selector
BestRanks == 2

\* The cards find_best_five is given: the spades 2 to 6 and the ace of spades
\* (flushes, straight flushes, straights) and the low hearts and diamonds
\* (pairs, two pairs, trips, full houses)
BestCards ==
    SelectSeq(create_deck, LAMBDA c : \/ (c.rank_value \in {0, 1, 2, 3, 4, 12} /\ c.suit = "S")
                                      \/ (c.rank_value < BestRanks /\ c.suit \in {"H", "D"}))

\* The sublists of a list that keep its order
SubLists(list) ==
    {SelectSeq(list, LAMBDA c : c \in S) : S \in SUBSET SetOf(list)}

InitBest ==
    /\ pc = "best"
    /\ cards \in {l \in SubLists(BestCards) : Len(l) \in 4..7}
    /\ score = <<>>
    /\ combo = 0 /\ best_hand = <<>> /\ best_score = <<>>
    /\ score1 = <<>> /\ score2 = <<>> /\ comparator = 0
    /\ my_hand = <<>> /\ community_cards = <<>> /\ player_count = 0
    /\ my_score = <<>> /\ remaining_deck = <<>> /\ opp_hands_count = 0
    /\ indices = <<>> /\ wins = 0 /\ ties = 0 /\ seen = 0
    /\ win_probability = <<>>

\* if len(cards) < 5: raise ValueError
BestRaise ==
    /\ pc = "best"
    /\ Len(cards) < 5
    /\ pc' = "best_raised"
    /\ best_hand' = ValueError
    /\ UNCHANGED <<cards, score, combo, best_score, score1, score2, comparator,
                   my_hand, community_cards, player_count, my_score,
                   remaining_deck, opp_hands_count, indices, wins, ties, seen,
                   win_probability>>

\* best_hand = None; best_score = (-1, []); the loop starts
BestBegin ==
    /\ pc = "best"
    /\ ~(Len(cards) < 5)
    /\ best_hand' = BestInit[1]
    /\ best_score' = BestInit[2]
    /\ combo' = 0
    /\ pc' = "best_loop"
    /\ UNCHANGED <<cards, score, score1, score2, comparator, my_hand,
                   community_cards, player_count, my_score, remaining_deck,
                   opp_hands_count, indices, wins, ties, seen,
                   win_probability>>

\* One pass of "for five_cards in combinations(cards, 5)"
BestIter ==
    /\ pc = "best_loop"
    /\ combo < Len(combinations(cards, 5))
    /\ LET after == BestStep(<<best_hand, best_score>>,
                             combinations(cards, 5)[combo + 1])
       IN /\ best_hand' = after[1]
          /\ best_score' = after[2]
    /\ combo' = combo + 1
    /\ UNCHANGED <<pc, cards, score, score1, score2, comparator, my_hand,
                   community_cards, player_count, my_score, remaining_deck,
                   opp_hands_count, indices, wins, ties, seen,
                   win_probability>>

\* The iterator is exhausted: return best_hand
BestReturn ==
    /\ pc = "best_loop"
    /\ combo = Len(combinations(cards, 5))
    /\ pc' = "best_done"
    /\ UNCHANGED <<cards, score, combo, best_hand, best_score, score1, score2,
                   comparator, my_hand, community_cards, player_count,
                   my_score, remaining_deck, opp_hands_count, indices, wins,
                   ties, seen, win_probability>>

NextBest == BestRaise \/ BestBegin \/ BestIter \/ BestReturn

SpecBest == InitBest /\ [][NextBest]_vars

(***************************************************************************)
(* probability_calculator                                                  *)
(***************************************************************************)
\* Remaining that removes only the cards of the hand
RemainingHandOnly(full_deck, known_cards) ==
    SelectSeq(full_deck, LAMBDA card :
        ~\E k \in 1..2 :
            card.rank = known_cards[k].rank /\ card.suit = known_cards[k].suit)

\* remaining_deck: the cards of full_deck that match no known card
Remaining(full_deck, known_cards) ==
    SelectSeq(full_deck, LAMBDA card :
        ~\E k \in 1..Len(known_cards) :
            card.rank = known_cards[k].rank /\ card.suit = known_cards[k].suit)

\* Tally with "if comparator >= 0" for a win and a second "if" for a tie
TallyTieTwice(w, t, cmp) ==
    <<IF cmp >= 0 THEN w + 1 ELSE w, IF cmp = 0 THEN t + 1 ELSE t>>

\* The loop body's tally: <<wins, ties>> after one comparison
Tally(w, t, cmp) ==
    IF cmp > 0 THEN <<w + 1, t>>
    ELSE IF cmp = 0 THEN <<w, t + 1>>
    ELSE <<w, t>>

\* HeadsUp with a tie counted in full: (wins + ties) / opp_hands_count
HeadsUpFullTies(w, t, count) ==
    IF count = 0 THEN ZeroDivisionError
    ELSE [num |-> 2 * w + 2 * t, den |-> 2 * count]

\* (wins + ties/2) / opp_hands_count as the exact fraction num/den
HeadsUp(w, t, count) ==
    IF count = 0 THEN ZeroDivisionError
    ELSE [num |-> 2 * w + t, den |-> 2 * count]

\* win_probability ** (player_count - 1): the value (num/den)^pow, kept as
\* the base fraction and the exponent. Python raises ZeroDivisionError for
\* 0.0 to a negative power.
Power(p, k) ==
    IF IsError(p) THEN p
    ELSE IF p.num = 0 /\ k < 0 THEN ZeroDivisionError
    ELSE [num |-> p.num, den |-> p.den, pow |-> k]

\* The score of the opponent holding remaining_deck[ind[1]], remaining_deck[ind[2]]
OppScore(deck, ind, board) ==
    LET opp_cards == Pick(deck, ind)
        opp_best_hand == find_best_five(opp_cards \o board)
    IN hand_evaluator(opp_best_hand)

\* The hands the model deals: <<hole cards, community cards>>
Deals == <<
    \* a royal flush on the board
    <<<<Card("9", "S"), Card("8", "S")>>,
      <<Card("10", "S"), Card("J", "S"), Card("Q", "S"), Card("K", "S"), Card("A", "S")>>>>,
    \* a royal flush made with the ace in the hand
    <<<<Card("A", "S"), Card("2", "D")>>,
      <<Card("K", "S"), Card("Q", "S"), Card("J", "S"), Card("10", "S"), Card("2", "H")>>>>,
    \* the ace of spades both in the hand and on the board
    <<<<Card("A", "S"), Card("2", "D")>>,
      <<Card("10", "S"), Card("J", "S"), Card("Q", "S"), Card("K", "S"), Card("A", "S")>>>>,
    \* a pair of twos
    <<<<Card("8", "S"), Card("2", "D")>>,
      <<Card("Q", "S"), Card("J", "S"), Card("10", "S"), Card("2", "H"), Card("3", "C")>>>>,
    \* a queen-high straight flush
    <<<<Card("9", "S"), Card("8", "S")>>,
      <<Card("Q", "S"), Card("J", "S"), Card("10", "S"), Card("2", "H"), Card("3", "C")>>>>,
    \* a royal flush made with both cards of the hand
    <<<<Card("A", "S"), Card("K", "S")>>,
      <<Card("Q", "S"), Card("J", "S"), Card("10", "S"), Card("2", "H"), Card("3", "C")>>>>
  >>

\* The first NumDeals of Deals are dealt
NumDeals == 4

\* player_count ranges from 2 - MaxBelow (too few players)
MaxBelow == 1

\* to 1 + MaxOpponents
MaxOpponents == 2

Front(list) == SubSeq(list, 1, Len(list) - 1)

Init ==
    /\ pc = "start"
    /\ \E d \in {i \in 1..Len(Deals) : i <= NumDeals} :
          /\ my_hand \in {Deals[d][1], Front(Deals[d][1])}
          /\ community_cards \in {Deals[d][2], Front(Deals[d][2])}
    /\ player_count \in (2 - MaxBelow)..(1 + MaxOpponents)
    /\ cards = <<>> /\ score = <<>>
    /\ combo = 0 /\ best_hand = <<>> /\ best_score = <<>>
    /\ score1 = <<>> /\ score2 = <<>> /\ comparator = 0
    /\ my_score = <<>> /\ remaining_deck = <<>> /\ opp_hands_count = 0
    /\ indices = <<>> /\ wins = 0 /\ ties = 0 /\ seen = 0
    /\ win_probability = <<>>

\* if len(my_hand) != 2: raise ValueError
RaiseMyHand ==
    /\ pc = "start"
    /\ Len(my_hand) # 2
    /\ win_probability' = ValueError
    /\ pc' = "raised"
    /\ UNCHANGED <<cards, score, combo, best_hand, best_score, score1, score2,
                   comparator, my_hand, community_cards, player_count,
                   my_score, remaining_deck, opp_hands_count, indices, wins,
                   ties, seen>>

\* if len(community_cards) != 5: raise ValueError
RaiseCommunity ==
    /\ pc = "start"
    /\ ~(Len(my_hand) # 2)
    /\ Len(community_cards) # 5
    /\ win_probability' = ValueError
    /\ pc' = "raised"
    /\ UNCHANGED <<cards, score, combo, best_hand, best_score, score1, score2,
                   comparator, my_hand, community_cards, player_count,
                   my_score, remaining_deck, opp_hands_count, indices, wins,
                   ties, seen>>

\* my_best_hand = find_best_five(my_hand + community_cards)
\* my_score = hand_evaluator(my_best_hand)
MyBest ==
    /\ pc = "start"
    /\ ~(Len(my_hand) # 2)
    /\ ~(Len(community_cards) # 5)
    /\ LET my_best_hand == find_best_five(my_hand \o community_cards)
       IN my_score' = hand_evaluator(my_best_hand)
    /\ pc' = "deck"
    /\ UNCHANGED <<cards, score, combo, best_hand, best_score, score1, score2, comparator,
                   my_hand, community_cards, player_count, remaining_deck,
                   opp_hands_count, indices, wins, ties, seen,
                   win_probability>>

\* full_deck, known_cards, remaining_deck, opp_hands_count, wins = 0,
\* ties = 0, and the iterator combinations(remaining_deck, 2) is created
BuildDeck ==
    /\ pc = "deck"
    /\ LET full_deck == create_deck
           known_cards == my_hand \o community_cards
           remaining == Remaining(full_deck, known_cards)
       IN /\ remaining_deck' = remaining
          /\ opp_hands_count' = comb(Len(remaining), 2)
          /\ indices' = FirstIndices(Len(remaining), 2)
    /\ wins' = 0
    /\ ties' = 0
    /\ seen' = 0
    /\ pc' = "loop"
    /\ UNCHANGED <<cards, score, combo, best_hand, best_score, score1, score2,
                   comparator, my_hand, community_cards, player_count,
                   my_score, win_probability>>

\* One pass of "for opp_cards in combinations(remaining_deck, 2)"
OppHand ==
    /\ pc = "loop"
    /\ indices # <<>>
    /\ \E opp_score \in {OppScore(remaining_deck, indices, community_cards)} :
       \E cmp \in {compare_scores(my_score, opp_score)} :
       \E after \in {Tally(wins, ties, cmp)} :
          /\ comparator' = cmp
          /\ wins' = after[1]
          /\ ties' = after[2]
    /\ seen' = seen + 1
    /\ indices' = NextIndices(indices, Len(remaining_deck))
    /\ UNCHANGED <<pc, cards, score, combo, best_hand, best_score, score1,
                   score2, my_hand, community_cards, player_count, my_score,
                   remaining_deck, opp_hands_count, win_probability>>

\* The iterator is exhausted: the two assignments of win_probability and the
\* return (or the ZeroDivisionError of either)
Return ==
    /\ pc = "loop"
    /\ indices = <<>>
    /\ win_probability' = Power(HeadsUp(wins, ties, opp_hands_count), player_count - 1)
    /\ pc' = IF IsError(Power(HeadsUp(wins, ties, opp_hands_count), player_count - 1))
             THEN "raised" ELSE "returned"
    /\ UNCHANGED <<cards, score, combo, best_hand, best_score, score1, score2,
                   comparator, my_hand, community_cards, player_count,
                   my_score, remaining_deck, opp_hands_count, indices, wins,
                   ties, seen>>

Next == RaiseMyHand \/ RaiseCommunity \/ MyBest \/ BuildDeck \/ OppHand \/ Return

Spec == Init /\ [][Next]_vars

(***************************************************************************)
(* Properties of hand_evaluator (SpecEval, SpecOrder)                      *)
(***************************************************************************)
\* The number of tie breakers each category carries
Arity(category) ==
    CASE category = 9 -> 0
      [] category = 8 -> 1
      [] category = 7 -> 2
      [] category = 6 -> 2
      [] category = 5 -> 5
      [] category = 4 -> 1
      [] category = 3 -> 3
      [] category = 2 -> 3
      [] category = 1 -> 4
      [] category = 0 -> 5
      [] OTHER -> -1

\* C5: for every hand of 5 distinct cards hand_evaluator returns a category
\* in 0..9 and as many tie breakers as the category fixes (9: 0, 8: 1, 7: 2,
\* 6: 2, 5: 5, 4: 1, 3: 3, 2: 3, 1: 4, 0: 5), each a rank value in 0..12.
C5_ScoreShape ==
    pc = "eval_done" =>
        /\ score[1] \in 0..9
        /\ Len(score[2]) = Arity(score[1])
        /\ \A i \in 1..Len(score[2]) : score[2][i] \in 0..12

\* A four of a kind has been scored
C5_Witness ==
    /\ pc = "eval_done"
    /\ score[1] = 7
    /\ Len(score[2]) = 2

\* The rank values of a hand and how often each occurs
HandRanks(hand) == {hand[i].rank_value : i \in 1..Len(hand)}

Times(hand, r) == Cardinality({i \in 1..Len(hand) : hand[i].rank_value = r})

RanksTimes(hand, n) == {r \in HandRanks(hand) : Times(hand, r) = n}

\* A set of rank values, highest first
RECURSIVE Descending(_)
Descending(S) == IF S = {} THEN <<>> ELSE <<Max(S)>> \o Descending(S \ {Max(S)})

TheOne(S) == CHOOSE x \in S : TRUE

Wheel == {0, 1, 2, 3, 12}

OneSuit(hand) == \A i, j \in 1..Len(hand) : hand[i].suit = hand[j].suit

IsRun(R) == (Cardinality(R) = 5 /\ Max(R) - Min(R) = 4) \/ R = Wheel

RunHigh(R) == IF Cardinality(R) = 5 /\ Max(R) - Min(R) = 4 THEN Max(R) ELSE 3

\* The priority chain: the score of the first rule that matches the hand
PriorityChain(hand) ==
    LET R == HandRanks(hand)
        quads == RanksTimes(hand, 4)
        trips == RanksTimes(hand, 3)
        twos == RanksTimes(hand, 2)
    IN  IF IsRun(R) /\ OneSuit(hand) /\ RunHigh(R) = 12 THEN <<9, <<>>>>
        ELSE IF IsRun(R) /\ OneSuit(hand) THEN <<8, <<RunHigh(R)>>>>
        ELSE IF quads # {} THEN <<7, <<TheOne(quads), TheOne(R \ quads)>>>>
        ELSE IF trips # {} /\ twos # {} THEN <<6, <<TheOne(trips), TheOne(twos)>>>>
        ELSE IF OneSuit(hand) THEN <<5, Descending(R)>>
        ELSE IF IsRun(R) THEN <<4, <<RunHigh(R)>>>>
        ELSE IF trips # {} THEN <<3, <<TheOne(trips)>> \o Descending(R \ trips)>>
        ELSE IF Cardinality(twos) = 2 THEN <<2, Descending(twos) \o Descending(R \ twos)>>
        ELSE IF Cardinality(twos) = 1 THEN <<1, <<TheOne(twos)>> \o Descending(R \ twos)>>
        ELSE <<0, Descending(R)>>

\* C8: hand_evaluator returns the score of the first matching rule of the
\* priority chain (royal flush, straight flush, four of a kind, full house,
\* flush, straight, three of a kind, two pair, one pair, high card), a
\* straight being 5 distinct ranks with max - min = 4 (high = max) or the
\* wheel {0,1,2,3,12} (high = 3). So a wheel scores (4,[3]) or (8,[3]) and
\* is below a six-high straight of its category, the only category-9 hand is
\* the ace-high straight flush, and no wrap-around set is a straight.
C8_PriorityChain ==
    pc = "eval_done" =>
        /\ score = PriorityChain(cards)
        /\ HandRanks(cards) = Wheel =>
              /\ score \in {<<4, <<3>>>>, <<8, <<3>>>>}
              /\ compare_scores(score, <<score[1], <<4>>>>) = -1
        /\ score[1] = 9 <=> (OneSuit(cards) /\ HandRanks(cards) = 8..12)
        /\ score[1] \in {4, 8, 9} =>
              \/ HandRanks(cards) = Wheel
              \/ \E lo \in 0..8 : HandRanks(cards) = lo..(lo + 4)

\* The wheel in one suit has been scored as a five-high straight flush
C8_Witness ==
    /\ pc = "eval_done"
    /\ HandRanks(cards) = Wheel
    /\ OneSuit(cards)
    /\ score = <<8, <<3>>>>

\* The cards of a hand in the order of the deck
DeckOrder(hand) == SelectSeq(create_deck, LAMBDA c : c \in SetOf(hand))

\* C9: hand_evaluator's result depends neither on the order of its input nor
\* on the order in which the rank-count map is iterated: every order of the
\* same five cards gets the same score, every iteration order of
\* rank_counts.items() gives that score, and the quad, trip and pair ranks in
\* the tie break are the ranks with that count (two pair: the higher first).
C9_OrderIndependent ==
    pc = "eval_done" =>
        /\ score = hand_evaluator(DeckOrder(cards))
        /\ cards = DeckOrder(cards) =>
              LET ranks == RanksOf(SortedCards(cards))
                  suits == SuitsOf(SortedCards(cards))
              IN \A items \in Orders(Counter(ranks)) :
                    Classify(ranks, suits, items) = score
        /\ score[1] = 7 => Times(cards, score[2][1]) = 4
        /\ score[1] = 6 => Times(cards, score[2][1]) = 3 /\ Times(cards, score[2][2]) = 2
        /\ score[1] = 3 => Times(cards, score[2][1]) = 3
        /\ score[1] = 2 => /\ Times(cards, score[2][1]) = 2
                           /\ Times(cards, score[2][2]) = 2
                           /\ score[2][1] > score[2][2]
        /\ score[1] = 1 => Times(cards, score[2][1]) = 2

\* Two pair has been scored for a hand that is not in deck order
C9_Witness ==
    /\ pc = "eval_done"
    /\ cards # DeckOrder(cards)
    /\ score[1] = 2
    /\ score[2][1] > score[2][2]

(***************************************************************************)
(* Properties of compare_scores (SpecCmp)                                  *)
(***************************************************************************)
\* Scores of one category carry equally many tie breakers
SameLengths(S) == \A a, b \in S : a[1] = b[1] => Len(a[2]) = Len(b[2])

Reflexive == score1 = score2 => comparator = 0

Antisymmetric == comparator = 0 - compare_scores(score2, score1)

\* C3 as claimed: compare_scores is a total order over all scores:
\* compare(a,a) = 0, compare(a,b) = -compare(b,a), and compare(a,b) >= 0 and
\* compare(b,c) >= 0 imply compare(a,c) >= 0, also for scores of one category
\* whose tie-break sequences differ in length.
C3_TotalOrderAllScores ==
    pc = "cmp_done" =>
        /\ Reflexive
        /\ Antisymmetric
        /\ \A c \in Scores :
              (comparator >= 0 /\ compare_scores(score2, c) >= 0)
                  => compare_scores(score1, c) >= 0

\* C3 as amended: compare_scores returns -1, 0 or 1 with compare(a,a) = 0 and
\* compare(a,b) = -compare(b,a) for all scores, and it is transitive over
\* scores whose tie-break sequences have the same length whenever their
\* categories are equal (as those of hand_evaluator have).
C3_TotalOrderSameLengths ==
    pc = "cmp_done" =>
        /\ comparator \in {-1, 0, 1}
        /\ Reflexive
        /\ Antisymmetric
        /\ \A c \in Scores :
              (/\ SameLengths({score1, score2, c})
               /\ comparator >= 0
               /\ compare_scores(score2, c) >= 0)
                  => compare_scores(score1, c) >= 0

\* Two scores of one category that the second tie breaker decides, and a
\* third one below them
C3_Witness ==
    /\ pc = "cmp_done"
    /\ score1[1] = score2[1]
    /\ Len(score1[2]) = 2 /\ Len(score2[2]) = 2
    /\ score1[2][1] = score2[2][1]
    /\ comparator = 1
    /\ \E c \in Scores : /\ SameLengths({score1, score2, c})
                         /\ c # score2
                         /\ compare_scores(score2, c) >= 0

(***************************************************************************)
(* Properties of find_best_five (SpecBest)                                 *)
(***************************************************************************)
\* The cards of a set in the order of the deck
DeckSeq(S) == SelectSeq(create_deck, LAMBDA c : c \in S)

\* C4: for 5, 6 or 7 distinct cards find_best_five returns a 5-card subset of
\* its input whose score is >= (under compare_scores) the score of every
\* 5-card subset of the input, after examining all C(n,5) subsets (1, 6, 21).
C4_BestOfAllSubsets ==
    pc = "best_done" =>
        /\ combo = comb(Len(cards), 5)
        /\ combo \in {1, 6, 21}
        /\ Len(best_hand) = 5
        /\ Cardinality(SetOf(best_hand)) = 5
        /\ SetOf(best_hand) \subseteq SetOf(cards)
        /\ best_score = hand_evaluator(best_hand)
        /\ best_hand = find_best_five(cards)
        /\ \A S \in SUBSET SetOf(cards) :
              Cardinality(S) = 5 =>
                  compare_scores(hand_evaluator(best_hand),
                                 hand_evaluator(DeckSeq(S))) >= 0

\* Seven cards whose best hand is neither the first nor the last subset
C4_Witness ==
    /\ pc = "best_done"
    /\ Len(cards) = 7
    /\ combo = 21
    /\ best_hand # combinations(cards, 5)[1]
    /\ best_hand # combinations(cards, 5)[21]

(***************************************************************************)
(* Properties of probability_calculator (Spec)                             *)
(***************************************************************************)
KnownCards == my_hand \o community_cards

\* 2 hole cards and 5 community cards
RightCounts == Len(my_hand) = 2 /\ Len(community_cards) = 5

\* The known cards are pairwise distinct
AllDistinct == \A i, j \in 1..Len(KnownCards) :
                   i # j => ~CardEq(KnownCards[i], KnownCards[j])

ValidInput == RightCounts /\ AllDistinct /\ player_count >= 2

\* The returned value (num/den)^pow is exactly 1.0
IsOne(p) == p.pow = 0 \/ p.num = p.den

\* The returned value (num/den)^pow lies in [0, 1]
InUnitInterval(p) == p.den > 0 /\ 0 <= p.num /\ p.num <= p.den /\ p.pow >= 0

\* C1: probability_calculator fails with a duplicate-card error whenever the
\* 2 hole cards and 5 community cards are not 7 pairwise distinct cards: no
\* opponent pair is enumerated and no probability is returned.
C1_DuplicateRejected ==
    (RightCounts /\ ~AllDistinct) => (seen = 0 /\ pc # "returned")

\* C2 as claimed: for every valid input whose best five of seven is a royal
\* flush, probability_calculator returns exactly 1.0 for every
\* player_count >= 2, also when the five royal-flush cards are all on the
\* board.
C2_RoyalFlushWinsAlways ==
    (pc = "returned" /\ ValidInput /\ my_score[1] = 9) => IsOne(win_probability)

\* C2 as amended: for every valid input whose best five of seven is a royal
\* flush, probability_calculator returns exactly 1.0 for every
\* player_count >= 2 when a hole card is part of the royal flush; when the
\* five royal-flush cards are all on the board every opponent ties and it
\* returns 0.5 ^ (player_count - 1).
C2_RoyalFlushWinsOrSplits ==
    (pc = "returned" /\ ValidInput /\ my_score[1] = 9) =>
        IF hand_evaluator(community_cards)[1] = 9
        THEN /\ wins = 0
             /\ ties = opp_hands_count
             /\ 2 * win_probability.num = win_probability.den
             /\ win_probability.pow = player_count - 1
        ELSE /\ wins = opp_hands_count
             /\ ties = 0
             /\ IsOne(win_probability)

\* A royal flush made with a hole card has been returned as 1.0
C2_Witness ==
    /\ pc = "returned"
    /\ ValidInput
    /\ my_score[1] = 9
    /\ hand_evaluator(community_cards)[1] # 9
    /\ win_probability.num = win_probability.den

\* The number of opponent pairs of a 45-card deck
OppPairs == comb(52 - 7, 2)

\* C6: for every valid input the tallies satisfy wins + ties <= (opponent
\* pairs processed so far) <= C(45,2) at every step of the loop, so the
\* heads-up value and the returned power of it lie in [0, 1].
C6_TalliesBounded ==
    ValidInput =>
        /\ pc \in {"loop", "returned"} =>
              /\ wins >= 0 /\ ties >= 0
              /\ wins + ties <= seen
              /\ seen <= OppPairs
              /\ opp_hands_count = OppPairs
        /\ pc = "returned" =>
              /\ win_probability.num = 2 * wins + ties
              /\ win_probability.den = 2 * OppPairs
              /\ win_probability.pow = player_count - 1
              /\ InUnitInterval(win_probability)

\* In the middle of the loop the player has won, tied and lost
C6_Witness ==
    /\ ValidInput
    /\ pc = "loop"
    /\ indices # <<>>
    /\ wins > 0 /\ ties > 0
    /\ wins + ties < seen

\* C7: probability_calculator rejects every player_count < 2 with an error;
\* it never returns a probability for fewer than two players.
C7_FewPlayersRejected ==
    player_count < 2 => pc # "returned"

\* The number of pairs <<a, b>>, a < b <= n, before <<i, j>> in the order
\* of the iterator
PairsBefore(ind, n) ==
    (ind[1] - 1) * n - ((ind[1] - 1) * ind[1]) \div 2 + (ind[2] - ind[1] - 1)

\* C10: for every duplicate-free set of 7 known cards the remaining deck has
\* 45 cards, none of them known and none repeated; the loop takes each
\* unordered pair of them exactly once, in the iterator's order, and ends
\* after C(45,2) = 990 of them, so that the wins, the ties and the losses
\* (the pairs counted as neither) add up to 990; no candidate holding shares
\* a card with the player or the board.
C10_EveryPairOnce ==
    (RightCounts /\ AllDistinct /\ pc \in {"loop", "returned"}) =>
        /\ Len(remaining_deck) = 52 - 7
        /\ Cardinality(SetOf(remaining_deck)) = 52 - 7
        /\ SetOf(remaining_deck) \cap SetOf(KnownCards) = {}
        /\ opp_hands_count = 990
        /\ indices # <<>> =>
              /\ 1 <= indices[1] /\ indices[1] < indices[2]
              /\ indices[2] <= Len(remaining_deck)
              /\ seen = PairsBefore(indices, Len(remaining_deck))
              /\ seen < 990
        /\ indices = <<>> => seen = 990
        /\ wins + ties <= seen

\* The loop has ended after 990 pairs, some of them lost
C10_Witness ==
    /\ RightCounts /\ AllDistinct
    /\ pc = "returned"
    /\ seen = 990
    /\ wins > 0
    /\ seen - wins - ties > 0

====
